---- MODULE Spec2Model ----
(***************************************************************************)
(* A model of the provider side of mhilton/openid (package openid2): the   *)
(* in-memory association store, association signing, the request           *)
(* dispatcher (Handler.ServeHTTP), the login flow (Handler.login) and the  *)
(* verification action (Handler.checkAuthentication).                      *)
(*                                                                         *)
(* Strings are sequences of tokens.  The tokens ",", ":", ".", "\n" and    *)
(* "%" are those single characters; every other token stands for a run of  *)
(* characters holding none of them.  The empty sequence is the empty       *)
(* string, which is also what a Go map lookup yields for an absent key.    *)
(***************************************************************************)
EXTENDS Integers, Sequences, FiniteSets, TLC

VARIABLES
    m,        \* MemoryAssociationStore.m: endpoint -> handle -> Association
    now,      \* the wall clock time.Now() reads, in minutes
    drawn,    \* how many association secrets crypto/rand has produced
    fatal,    \* the Go runtime has thrown on an unsynchronised map access
    pc,       \* per request goroutine: its position in the handler
    params,   \* per goroutine: the request's parameter map
    resp,     \* per goroutine: the collaborator's *LoginResponse (<<>> is nil)
    lerr,     \* per goroutine: the collaborator's error
    called,   \* per goroutine: what Login returned, <<>> when it was not called
    nonce,    \* per goroutine: the response nonce
    assoc,    \* per goroutine: the *Association in hand (<<>> is nil)
    i,        \* per goroutine: saveAssociation's loop counter
    out,      \* per goroutine: the respond calls made for this request
    rp,       \* the id_res message a relying party holds (<<>> is none)
    accepted, \* history: check_authentication requests answered is_valid=true
    sg        \* inputs and results of SpecSign and of SpecEnc, else <<>>

vars == <<m, now, drawn, fatal, pc, params, resp, lerr, called, nonce, assoc, i, out,
          rp, accepted, sg>>

----------------------------------------------------------------------------
(* Bounds of the model *)

NumHandles == 1
MaxAssocs == 2
MaxTime == 1
MaxLen == 2

(* Program constants *)

(* A loop that takes one attempt more than saveAssociation does *)
MaxAttemptsMore == 10 + 1

MaxAttempts == 10

TTL == 1

----------------------------------------------------------------------------
(* Strings and parameter maps *)

S(w) == <<w>>

Comma == ","
Colon == ":"
Dot == "."
NL == "\n"

EmptyMap == <<>>

Lookup(p, k) == IF k \in DOMAIN p THEN p[k] ELSE <<>>

Put(p, k, v) == (k :> v) @@ p

MapOf(pairs) ==
    [k \in {x[1] : x \in pairs} |-> (CHOOSE x \in pairs : x[1] = k)[2]]

Opt(k, v) == IF v = <<>> THEN {} ELSE {<<k, v>>}

Namespace == S("http://specs.openid.net/auth/2.0")

hmacSHA1 == S("HMAC-SHA1")
hmacSHA256 == S("HMAC-SHA256")

RECURSIVE Split(_, _)
Split(s, sep) ==
    IF \A k \in 1..Len(s) : s[k] # sep
    THEN <<s>>
    ELSE LET k == CHOOSE k \in 1..Len(s) :
                      s[k] = sep /\ \A j \in 1..(k - 1) : s[j] # sep
         IN  <<SubSeq(s, 1, k - 1)>> \o Split(SubSeq(s, k + 1, Len(s)), sep)

RECURSIVE Join(_, _)
Join(list, sep) ==
    IF list = <<>> THEN <<>>
    ELSE IF Len(list) = 1 THEN list[1]
    ELSE list[1] \o <<sep>> \o Join(Tail(list), sep)

WriteKeyValuePair(key, value) == key \o <<Colon>> \o value \o <<NL>>

----------------------------------------------------------------------------
(* Association.sign.  The HMAC is taken to be collision-free: the digest   *)
(* is the triple of algorithm, key and message, and base64 is injective.   *)

RECURSIVE SignedBytes(_, _)
SignedBytes(ps, signed) ==
    IF signed = <<>> THEN <<>>
    ELSE WriteKeyValuePair(Head(signed), Lookup(ps, Head(signed)))
             \o SignedBytes(ps, Tail(signed))

Hmac(type, secret, bytes) == type \o secret \o bytes

Base64(digest) == <<"b64">> \o digest

sign(a, ps, signed) ==
    IF a.Type \in {hmacSHA1, hmacSHA256}
    THEN [sig |-> Base64(Hmac(a.Type, a.Secret, SignedBytes(ps, signed))),
          err |-> "nil"]
    ELSE [sig |-> <<>>, err |-> "unsupported association type"]

----------------------------------------------------------------------------
(* MemoryAssociationStore *)

Endpoint0 == <<>>

Handles == {S("h" \o ToString(n)) : n \in 1..NumHandles}

Secret(n) == S("s" \o ToString(n))

StoreGet(store, endpoint, handle) ==
    IF endpoint \notin DOMAIN store THEN <<>>
    ELSE IF handle \notin DOMAIN store[endpoint] THEN <<>>
    ELSE <<store[endpoint][handle]>>

StorePut(store, a) ==
    LET inner == IF a.Endpoint \in DOMAIN store THEN store[a.Endpoint]
                 ELSE EmptyMap
    IN  Put(store, a.Endpoint, Put(inner, a.Handle, a))

(* A Delete that leaves the association where it is *)
StoreRemoveKeeps(store, endpoint, handle) == store

StoreRemove(store, endpoint, handle) ==
    LET inner == store[endpoint]
    IN  Put(store, endpoint,
            [h \in DOMAIN inner \ {handle} |-> inner[h]])

(* A comparison that lets the expiry time itself pass *)
BeforeOrAt(t, u) == t <= u

Before(t, u) == t < u

----------------------------------------------------------------------------
(* Responder *)

(* An error that carries no parameters of its own *)
ErrorParamsNone(err) == EmptyMap

ErrorParams(err) ==
    IF err = "session type not supported"
    THEN MapOf({<<S("error-code"), S("unsupported-type")>>})
    ELSE EmptyMap

makeError(err) ==
    ErrorParams(err) @@ MapOf({<<S("ns"), Namespace>>,
                               <<S("mode"), S("error")>>,
                               <<S("error"), S(err)>>})

UrlParses(u) == \A k \in 1..Len(u) : u[k] # "%"

(* A responder that never sets the status *)
directNoStatus(ps, err) ==
    [kind |-> "direct",
     returnTo |-> <<>>,
     status |-> 200,
     params |-> IF err # "nil" THEN makeError(err) ELSE ps]

direct(ps, err) ==
    [kind |-> "direct",
     returnTo |-> <<>>,
     status |-> IF err # "nil" THEN 400 ELSE 200,
     params |-> IF err # "nil" THEN makeError(err) ELSE ps]

indirect(returnTo, ps, err) ==
    IF returnTo = <<>> \/ ~UrlParses(returnTo)
    THEN direct(ps, err)
    ELSE [kind |-> "indirect",
          returnTo |-> returnTo,
          status |-> 303,
          params |-> IF err # "nil" THEN makeError(err) ELSE ps]

----------------------------------------------------------------------------
(* Extensions *)

bannedPrefixes ==
    {S(w) : w \in {"assoc_handle", "assoc_type", "claimed_id", "contact",
                   "delegate", "dh_consumer_public", "dh_gen", "dh_modulus",
                   "error", "identity", "invalidate_handle", "mode", "ns",
                   "op_endpoint", "openid", "realm", "reference",
                   "response_nonce", "return_to", "server", "session_type",
                   "sig", "signed", "trust_root"}}

(* A search that skips reserved words only *)
RECURSIVE FallbackPrefixBannedOnly(_, _, _)
FallbackPrefixBannedOnly(prefix, n, used) ==
    IF prefix \in bannedPrefixes
    THEN FallbackPrefixBannedOnly(<<"ext", ToString(n)>>, n + 1, used)
    ELSE [prefix |-> prefix, i |-> n]

(* The loop "for bannedPrefixes[prefix] || used[prefix]" of encodeExtensions *)
RECURSIVE FallbackPrefix(_, _, _)
FallbackPrefix(prefix, n, used) ==
    IF prefix \in bannedPrefixes \/ prefix \in used
    THEN FallbackPrefix(<<"ext", ToString(n)>>, n + 1, used)
    ELSE [prefix |-> prefix, i |-> n]

(* The orders in which Go may range over a map with the given keys *)
Orders(keys) ==
    {o \in [1..Cardinality(keys) -> keys] :
        \A a, b \in 1..Cardinality(keys) : a # b => o[a] # o[b]}

RECURSIVE WriteExtParams(_, _, _, _)
WriteExtParams(ps, prefix, extParams, order) ==
    IF order = <<>> THEN ps
    ELSE WriteExtParams(Put(ps, prefix \o <<Dot>> \o Head(order),
                            extParams[Head(order)]),
                        prefix, extParams, Tail(order))

ExtKeys(prefix, order) ==
    [k \in 1..Len(order) |-> prefix \o <<Dot>> \o order[k]]

(* encodeExtensions: every result the range orders allow, each the updated *)
(* parameter map and the list of signed keys                               *)
RECURSIVE EncodeFrom(_, _, _, _, _)
EncodeFrom(exts, n, used, ps, signed) ==
    IF exts = <<>> THEN {[params |-> ps, signed |-> signed]}
    ELSE LET ext == Head(exts)
             pf  == FallbackPrefix(ext.Prefix, n, used)
             p1  == Put(ps, <<"ns", Dot>> \o pf.prefix, ext.Namespace)
         IN  UNION {EncodeFrom(Tail(exts), pf.i, used \cup {pf.prefix},
                               WriteExtParams(p1, pf.prefix, ext.Params, o),
                               signed \o ExtKeys(pf.prefix, o)) :
                        o \in Orders(DOMAIN ext.Params)}

encodeExtensions(ps, extensions) == EncodeFrom(extensions, 0, {}, ps, <<>>)

(* strings.SplitN(k, ".", 2): the place of the first "." (0 when there is  *)
(* none), the part before it and the part after it                         *)
FirstDot(k) ==
    IF \E j \in 1..Len(k) : k[j] = Dot
    THEN CHOOSE j \in 1..Len(k) :
           k[j] = Dot /\ \A l \in 1..(j - 1) : k[l] # Dot
    ELSE 0

Part0(k) == SubSeq(k, 1, FirstDot(k) - 1)

Part1(k) == SubSeq(k, FirstDot(k) + 1, Len(k))

(* The keys the first loop of parseExtensions does not skip *)
NsKeys(ps) == {k \in DOMAIN ps : FirstDot(k) > 0 /\ Part0(k) = S("ns")}

(* The first loop of parseExtensions over the keys in one range order *)
RECURSIVE ScanDecls(_, _, _, _)
ScanDecls(order, ps, prefixes, namespaces) ==
    IF order = <<>> THEN [err |-> "nil", prefixes |-> prefixes]
    ELSE LET prefix == Part1(Head(order))
             v      == ps[Head(order)]
         IN  IF prefix \in bannedPrefixes
             THEN [err |-> "namespace prefix not allowed",
                   prefixes |-> EmptyMap]
             ELSE IF prefix \in DOMAIN prefixes /\ prefixes[prefix] # v
             THEN [err |-> "namespace prefix assigned to multiple namespaces",
                   prefixes |-> EmptyMap]
             ELSE IF v \in DOMAIN namespaces /\ namespaces[v] # prefix
             THEN [err |-> "namespace assigned to multiple prefixes",
                   prefixes |-> EmptyMap]
             ELSE ScanDecls(Tail(order), ps, Put(prefixes, prefix, v),
                            Put(namespaces, v, prefix))

(* The third loop of parseExtensions: the parameters of one prefix *)
ExtParamsOf(ps, prefix) ==
    LET ks == {k \in DOMAIN ps :
                 FirstDot(k) > 0 /\ Part0(k) # S("ns") /\ Part0(k) = prefix}
    IN  MapOf({<<Part1(k), ps[k]>> : k \in ks})

(* A parse that rejects nothing and finds no extension *)
parseExtensionsAccepting(ps) == {[extensions |-> <<>>, err |-> "nil"]}

(* parseExtensions: every result the range orders over params and over     *)
(* prefixes allow                                                          *)
parseExtensions(ps) ==
    UNION {LET scan == ScanDecls(o, ps, EmptyMap, EmptyMap)
           IN  IF scan.err # "nil"
               THEN {[extensions |-> <<>>, err |-> scan.err]}
               ELSE {[extensions |->
                         [j \in 1..Len(po) |->
                            [Namespace |-> scan.prefixes[po[j]],
                             Prefix |-> po[j],
                             Params |-> ExtParamsOf(ps, po[j])]],
                      err |-> "nil"] : po \in Orders(DOMAIN scan.prefixes)} :
             o \in Orders(NsKeys(ps))}

----------------------------------------------------------------------------
(* The inputs: requests, and what the LoginHandler collaborator returns *)

Procs == {"g1", "g2"}

ErrUnauthenticated == "authentication failed"
ErrDuplicateAssociation == "duplicate association"

K_ns == S("ns")
K_mode == S("mode")
K_return_to == S("return_to")
K_assoc_handle == S("assoc_handle")
K_signed == S("signed")
K_sig == S("sig")

ReturnTos == {<<>>, S("https://rp/cb"), <<"https://rp/", "%">>}

ExtPlain ==
    [Namespace |-> S("sreg-uri"), Prefix |-> S("sreg"),
     Params |-> MapOf({<<S("email"), S("a@b")>>})]

ExtComma ==
    [Namespace |-> S("ax-uri"), Prefix |-> S("ax"),
     Params |-> MapOf({<<<<"type", Comma, "v2">>, S("x")>>})]

LoginResponse(claimedID, identity, extensions) ==
    [ClaimedID |-> claimedID, Identity |-> identity,
     OPEndpoint |-> S("https://op/"), Extensions |-> extensions]

RespFull == LoginResponse(S("alice"), S("alice"), <<>>)

(* A world names the goroutines that serve requests and the range of the   *)
(* inputs: "control" ranges over every request and collaborator outcome,   *)
(* "content" over the contents of the LoginResponse, "race" is the         *)
(* smallest range, for two goroutines, and "handles" adds to it a request  *)
(* that names a handle the store does not know.                            *)
LoginResponses(W) ==
    IF W.inputs = "content"
    THEN {RespFull,
          LoginResponse(<<>>, <<>>, <<>>),
          LoginResponse(S("alice"), <<>>, <<ExtPlain>>),
          LoginResponse(<<>>, S("alice"), <<ExtComma>>)}
    ELSE {RespFull}

(* Login(w, r, req) returns (resp, err) *)
LoginOutcomes(W) ==
    {[resp |-> <<r>>, err |-> "nil"] : r \in LoginResponses(W)}
    \cup (IF W.inputs = "control"
          THEN {[resp |-> <<>>, err |-> "nil"],
                [resp |-> <<>>, err |-> ErrUnauthenticated],
                [resp |-> <<RespFull>>, err |-> ErrUnauthenticated],
                [resp |-> <<>>, err |-> "login failed"],
                [resp |-> <<RespFull>>, err |-> "login failed"]}
          ELSE {})

Methods(W) == IF W.inputs = "control" THEN {"GET", "POST", "PUT"} ELSE {"GET"}

(* A handle a client holds that the store never generates *)
StaleHandle == S("h-stale")

(* Extension declarations parseExtensions rejects: a reserved word as the  *)
(* prefix, and one namespace under two prefixes                            *)
BadDeclarations ==
    {{<<<<"ns", Dot, "mode">>, S("sreg-uri")>>},
     {<<<<"ns", Dot, "a">>, S("sreg-uri")>>,
      <<<<"ns", Dot, "b">>, S("sreg-uri")>>}}

(* A request that declares an extension and gives it a parameter *)
WithExtension ==
    MapOf({<<K_ns, Namespace>>, <<K_mode, S("checkid_setup")>>,
           <<K_return_to, S("https://rp/cb")>>,
           <<<<"ns", Dot, "sreg">>, S("sreg-uri")>>,
           <<<<"sreg", Dot, "required">>, S("email")>>})

LoginRequests(W) ==
    IF W.inputs = "control"
    THEN {MapOf({<<K_ns, Namespace>>, <<K_mode, S(mode)>>}
                \cup Opt(K_return_to, rt) \cup Opt(K_assoc_handle, h)) :
              mode \in {"checkid_immediate", "checkid_setup"},
              rt \in {<<>>, S("https://rp/cb")},
              h \in {<<>>} \cup Handles}
         \cup
         {MapOf({<<K_ns, S("bogus-ns")>>, <<K_mode, S(mode)>>,
                 <<K_return_to, S("https://rp/cb")>>}) :
              mode \in {"checkid_immediate", "checkid_setup"}}
         \cup
         {MapOf({<<K_ns, Namespace>>, <<K_mode, S(mode)>>} \cup decls
                \cup Opt(K_return_to, rt)) :
              mode \in {"checkid_immediate", "checkid_setup"},
              rt \in {<<>>, S("https://rp/cb")}, decls \in BadDeclarations}
    ELSE {MapOf({<<K_ns, Namespace>>, <<K_mode, S("checkid_setup")>>,
                 <<K_return_to, S("https://rp/cb")>>}
                \cup Opt(K_assoc_handle, h)) : h \in {<<>>} \cup Handles}
         \cup (IF W.inputs = "content" THEN {WithExtension} ELSE {})
         \cup (IF W.inputs = "handles"
               THEN {MapOf({<<K_ns, Namespace>>,
                            <<K_mode, S("checkid_setup")>>,
                            <<K_return_to, S("https://rp/cb")>>,
                            <<K_assoc_handle, StaleHandle>>})}
               ELSE {})

OtherRequests(W) ==
    IF W.inputs = "control"
    THEN {MapOf(Opt(K_ns, ns) \cup {<<K_mode, S("associate")>>}
                \cup Opt(S("session_type"), st)) :
              ns \in {Namespace, S("bogus-ns")}, st \in {<<>>, S("DH-SHA256")}}
         \cup
         {MapOf(Opt(K_ns, ns) \cup {<<K_mode, S("logout")>>}
                \cup Opt(K_return_to, rt)) :
              ns \in {Namespace, S("bogus-ns")}, rt \in ReturnTos}
    ELSE {}

(* What a relying party sends to verify the id_res message it holds: the   *)
(* message with mode=check_authentication, as received or altered          *)
AsCheckAuth(msg) == Put(msg, K_mode, S("check_authentication"))

CheckAuthRequests(W) ==
    LET held == IF rp = <<>> THEN {} ELSE {AsCheckAuth(rp[1].params)}
    IN  IF W.inputs = "control"
        THEN held
             \cup {Put(q, K_sig, S("forged")) : q \in held}
             \cup {Put(q, K_return_to, S("https://evil/")) : q \in held}
             \cup {Put(q, K_ns, S("bogus-ns")) : q \in held}
             \cup {MapOf({<<K_ns, Namespace>>,
                          <<K_mode, S("check_authentication")>>,
                          <<K_assoc_handle, h>>}) : h \in Handles}
        ELSE held

Requests(W) == LoginRequests(W) \cup OtherRequests(W) \cup CheckAuthRequests(W)

----------------------------------------------------------------------------
(* Unsynchronised access to the Go map.  An access that overlaps another   *)
(* goroutine's conflicting access is a data race: the runtime may run the  *)
(* two one after the other, or throw "concurrent map read and map write" / *)
(* "concurrent map writes", which ends the process.                        *)

ReadPcs == {"ga_get", "ga_del", "sa_try", "ca_get", "ca_del"}
WritePcs == {"ga_rm", "add_put", "ca_rm"}

MapOutcomes(p, isWrite) ==
    IF \E q \in Procs \ {p} :
           pc[q] \in WritePcs \/ (isWrite /\ pc[q] \in ReadPcs)
    THEN {"ok", "fatal"}
    ELSE {"ok"}

Crash ==
    /\ fatal' = TRUE
    /\ UNCHANGED <<m, now, drawn, pc, params, resp, lerr, called, nonce, assoc, i,
                   out, rp, accepted, sg>>

Goto(p, l) == pc' = [pc EXCEPT ![p] = l]

Respond(p, r) == out' = [out EXCEPT ![p] = Append(@, r)]

(* The locals of a handler that has returned are dead: they are cleared *)
Clear(p) ==
    /\ resp' = [resp EXCEPT ![p] = <<>>]
    /\ nonce' = [nonce EXCEPT ![p] = <<>>]
    /\ assoc' = [assoc EXCEPT ![p] = <<>>]
    /\ i' = [i EXCEPT ![p] = 0]

Keep == UNCHANGED <<resp, nonce, assoc, i>>

Finish(p, r) == Respond(p, r) /\ Goto(p, "done") /\ Clear(p)

----------------------------------------------------------------------------
(* Handler.ServeHTTP: the request is parsed, its ns is checked and it is   *)
(* routed by mode.  Nothing returns after the ns error is sent.            *)

associate(ps) == [params |-> EmptyMap, err |-> "session type not supported"]

ServeHTTP(p, W) ==
    /\ ~fatal
    /\ pc[p] = "idle"
    /\ \E method \in Methods(W), q \in Requests(W) :
         LET ps   == IF method \in {"GET", "POST"} THEN q ELSE EmptyMap
             rt   == Lookup(ps, K_return_to)
             mode == Lookup(ps, K_mode)
             o1   == IF Lookup(ps, K_ns) = Namespace THEN <<>>
                     ELSE <<indirect(rt, EmptyMap, "unknown ns")>>
         IN  /\ params' = [params EXCEPT ![p] = ps]
             /\ IF mode = S("associate")
                THEN /\ out' = [out EXCEPT ![p] =
                                   Append(o1, direct(associate(ps).params,
                                                     associate(ps).err))]
                     /\ Goto(p, "done")
                ELSE IF mode \in {S("checkid_immediate"), S("checkid_setup")}
                THEN /\ out' = [out EXCEPT ![p] = o1]
                     /\ Goto(p, "login")
                ELSE IF mode = S("check_authentication")
                THEN /\ out' = [out EXCEPT ![p] = o1]
                     /\ Goto(p, "ca_get")
                ELSE /\ out' = [out EXCEPT ![p] =
                                   Append(o1, indirect(rt, EmptyMap,
                                                       "unknown mode"))]
                     /\ Goto(p, "done")
    /\ UNCHANGED <<m, now, drawn, fatal, resp, lerr, called, nonce, assoc, i, rp,
                   accepted, sg>>

----------------------------------------------------------------------------
(* Handler.login, up to the call of getAssociation *)

(* Handler.getNonce: the time in RFC 3339 followed by 16 random bytes in   *)
(* ascii85                                                                 *)
Rfc3339(t) == <<"2015-01-01T00", Colon, ToString(t), Colon, "00Z">>

getNonce(t) == Rfc3339(t) \o S("nonce85")

(* A login that answers cancel also when the collaborator has answered     *)
(* the request itself                                                      *)
NoAssertionCancels(p, rt, mode, err) ==
    Finish(p, indirect(rt, MapOf({<<K_ns, Namespace>>,
                                  <<K_mode, IF mode = S("checkid_immediate")
                                            THEN S("setup_needed")
                                            ELSE S("cancel")>>}),
                       "nil"))

(* The end of either case of login's switch when resp is nil *)
NoAssertion(p, rt, mode, err) ==
    IF mode = S("checkid_immediate")
    THEN Finish(p, indirect(rt, MapOf({<<K_ns, Namespace>>,
                                       <<K_mode, S("setup_needed")>>}),
                            "nil"))
    ELSE IF err = "nil"
    THEN Goto(p, "done") /\ Clear(p) /\ UNCHANGED out
    ELSE Finish(p, indirect(rt, MapOf({<<K_ns, Namespace>>,
                                       <<K_mode, S("cancel")>>}),
                            "nil"))

Login(p, W) ==
    /\ ~fatal
    /\ pc[p] = "login"
    /\ LET ps   == params[p]
           rt   == Lookup(ps, K_return_to)
           mode == Lookup(ps, K_mode)
       IN  \E pr \in parseExtensions(ps) :
             IF pr.err # "nil"
             THEN /\ Finish(p, indirect(rt, EmptyMap, pr.err))
                  /\ UNCHANGED <<lerr, called>>
             ELSE
               \E o \in LoginOutcomes(W), randOk \in BOOLEAN :
                 /\ lerr' = [lerr EXCEPT ![p] = o.err]
                 /\ called' = [called EXCEPT ![p] = <<o>>]
                 /\ IF o.err # "nil" /\ o.err # ErrUnauthenticated
                    THEN Finish(p, indirect(rt, EmptyMap, o.err))
                    ELSE IF o.resp = <<>>
                    THEN NoAssertion(p, rt, mode, o.err)
                    ELSE IF rt = <<>>
                    THEN Finish(p, direct(EmptyMap, "cannot send id_res message, no return_to parameter"))
                    ELSE IF ~randOk
                    THEN Finish(p, indirect(rt, EmptyMap, "rand failed"))
                    ELSE /\ resp' = [resp EXCEPT ![p] = o.resp]
                         /\ nonce' = [nonce EXCEPT ![p] = getNonce(now)]
                         /\ Goto(p, IF Lookup(ps, K_assoc_handle) # <<>>
                                    THEN "ga_get" ELSE "ga_new")
                         /\ UNCHANGED <<out, assoc, i>>
    /\ UNCHANGED <<m, now, drawn, fatal, params, rp, accepted, sg>>

----------------------------------------------------------------------------
(* Handler.login from "encode the response" on *)

(* A list that names the nonce after the handle *)
SignedCoreSwapped ==
    <<S("op_endpoint"), S("return_to"), S("assoc_handle"), S("response_nonce")>>

SignedCore ==
    <<S("op_endpoint"), S("return_to"), S("response_nonce"), S("assoc_handle")>>

(* A message that names the requested handle whenever there is one *)
WithInvalidateAlways(ps, rh, a) ==
    IF rh # <<>> THEN Put(ps, S("invalidate_handle"), rh) ELSE ps

(* if params["assoc_handle"] != "" && params["assoc_handle"] != assoc.Handle *)
WithInvalidate(ps, rh, a) ==
    IF rh # <<>> /\ rh # a.Handle
    THEN Put(ps, S("invalidate_handle"), rh) ELSE ps

(* The id_res messages login can build: one per order in which             *)
(* encodeExtensions may range over the extensions' parameters              *)
IdRes(ps, r, a, n) ==
    LET rt  == Lookup(ps, K_return_to)
        p0  == MapOf({<<K_ns, Namespace>>,
                      <<K_mode, S("id_res")>>,
                      <<K_return_to, rt>>,
                      <<S("op_endpoint"), r.OPEndpoint>>,
                      <<S("response_nonce"), n>>,
                      <<K_assoc_handle, a.Handle>>})
        s1  == IF r.ClaimedID # <<>> THEN Append(SignedCore, S("claimed_id"))
               ELSE SignedCore
        p1  == IF r.ClaimedID # <<>> THEN Put(p0, S("claimed_id"), r.ClaimedID)
               ELSE p0
        s2  == IF r.Identity # <<>> THEN Append(s1, S("identity")) ELSE s1
        p2  == IF r.Identity # <<>> THEN Put(p1, S("identity"), r.Identity)
               ELSE p1
        rh  == Lookup(ps, K_assoc_handle)
        p3  == WithInvalidate(p2, rh, a)
    IN  {LET signed == s2 \o enc.signed
             p4     == Put(enc.params, K_signed, Join(signed, Comma))
             sgn    == sign(a, p4, signed)
         IN  [params |-> IF sgn.err = "nil" THEN Put(p4, K_sig, sgn.sig)
                         ELSE EmptyMap,
              err |-> sgn.err] :
         enc \in encodeExtensions(p3, r.Extensions)}

(* The response is signed and sent; a relying party may keep it *)
Emit(p, a) ==
    \E msg \in IdRes(params[p], resp[p][1], a, nonce[p]) :
      /\ Finish(p, indirect(Lookup(params[p], K_return_to), msg.params,
                            msg.err))
      /\ \E kept \in BOOLEAN :
           IF kept /\ msg.err = "nil"
           THEN /\ rp' = <<[params |-> msg.params, assoc |-> a]>>
                /\ accepted' = {}
           ELSE UNCHANGED <<rp, accepted>>

----------------------------------------------------------------------------
(* Handler.getAssociation *)

(* store.Get("", requestHandle), for a non-empty requestHandle *)
GaGet(p) ==
    /\ ~fatal
    /\ pc[p] = "ga_get"
    /\ \E oc \in MapOutcomes(p, FALSE) :
         IF oc = "fatal" THEN Crash
         ELSE LET a == StoreGet(m, Endpoint0, Lookup(params[p], K_assoc_handle))
              IN  /\ assoc' = [assoc EXCEPT ![p] = a]
                  /\ Goto(p, IF a # <<>> THEN "ga_exp" ELSE "ga_new")
                  /\ UNCHANGED <<m, now, drawn, fatal, params, resp, lerr, called,
                                 nonce, i, out, rp, accepted, sg>>

(* if time.Now().Before(a.Expires) { return }, and login goes on to sign;  *)
(* otherwise store.Delete                                                  *)
GaExp(p) ==
    /\ ~fatal
    /\ pc[p] = "ga_exp"
    /\ IF Before(now, assoc[p][1].Expires)
       THEN Emit(p, assoc[p][1])
       ELSE Goto(p, "ga_del") /\ Keep /\ UNCHANGED <<out, rp, accepted>>
    /\ UNCHANGED <<m, now, drawn, fatal, params, lerr, called, sg>>

(* store.Delete("", requestHandle): its s.Get *)
GaDel(p) ==
    /\ ~fatal
    /\ pc[p] = "ga_del"
    /\ \E oc \in MapOutcomes(p, FALSE) :
         IF oc = "fatal" THEN Crash
         ELSE /\ Goto(p, IF StoreGet(m, Endpoint0,
                                     Lookup(params[p], K_assoc_handle)) # <<>>
                         THEN "ga_rm" ELSE "ga_new")
              /\ UNCHANGED <<m, now, drawn, fatal, params, resp, lerr, called, nonce,
                             assoc, i, out, rp, accepted, sg>>

(* store.Delete("", requestHandle): its delete(s.m[endpoint], handle) *)
GaRm(p) ==
    /\ ~fatal
    /\ pc[p] = "ga_rm"
    /\ \E oc \in MapOutcomes(p, TRUE) :
         IF oc = "fatal" THEN Crash
         ELSE /\ m' = StoreRemove(m, Endpoint0,
                                  Lookup(params[p], K_assoc_handle))
              /\ Goto(p, "ga_new")
              /\ UNCHANGED <<now, drawn, fatal, params, resp, lerr, called, nonce,
                             assoc, i, out, rp, accepted, sg>>

(* The new association: 128 random bytes, never drawn twice, HMAC-SHA256,  *)
(* expiring a minute from now; crypto/rand may fail                        *)
GaNew(p) ==
    /\ ~fatal
    /\ pc[p] = "ga_new"
    /\ drawn < MaxAssocs
    /\ \E randOk \in BOOLEAN :
         IF randOk
         THEN /\ drawn' = drawn + 1
              /\ assoc' = [assoc EXCEPT ![p] =
                              <<[Endpoint |-> Endpoint0,
                                 Handle   |-> <<>>,
                                 Secret   |-> Secret(drawn + 1),
                                 Type     |-> hmacSHA256,
                                 Expires  |-> now + TTL]>>]
              /\ i' = [i EXCEPT ![p] = 0]
              /\ Goto(p, "sa_try")
              /\ UNCHANGED <<out, resp, nonce>>
         ELSE /\ Finish(p, indirect(Lookup(params[p], K_return_to), EmptyMap,
                                    "rand failed"))
              /\ UNCHANGED drawn
    /\ UNCHANGED <<m, now, fatal, params, lerr, called, rp, accepted, sg>>

----------------------------------------------------------------------------
(* saveAssociation and MemoryAssociationStore.Add *)

(* One turn of the loop up to Add's s.Get: a random handle is drawn and    *)
(* looked up; a duplicate counts the attempt and, after the last one, ends *)
(* the loop with "cannot store association".  The counter is not read      *)
(* again once Add has found the handle free, and is cleared there.         *)
SaTry(p) ==
    /\ ~fatal
    /\ pc[p] = "sa_try"
    /\ \E oc \in MapOutcomes(p, FALSE) :
         IF oc = "fatal" THEN Crash
         ELSE
           /\ \E h \in Handles \cup {<<>>} :
                LET a == [assoc[p][1] EXCEPT !.Handle = h]
                IN  IF h = <<>>
                    THEN Finish(p, indirect(Lookup(params[p], K_return_to),
                                            EmptyMap, "rand failed"))
                    ELSE IF StoreGet(m, a.Endpoint, a.Handle) = <<>>
                    THEN /\ assoc' = [assoc EXCEPT ![p] = <<a>>]
                         /\ i' = [i EXCEPT ![p] = 0]
                         /\ Goto(p, "add_put")
                         /\ UNCHANGED <<out, resp, nonce>>
                    ELSE IF i[p] + 1 < MaxAttempts
                    THEN /\ assoc' = [assoc EXCEPT ![p] = <<a>>]
                         /\ i' = [i EXCEPT ![p] = @ + 1]
                         /\ UNCHANGED <<pc, out, resp, nonce>>
                    ELSE Finish(p, indirect(Lookup(params[p], K_return_to),
                                            EmptyMap,
                                            "cannot store association"))
           /\ UNCHANGED <<m, now, drawn, fatal, params, lerr, called, rp, accepted,
                          sg>>

(* Add's m[a.Handle] = *a; s.m[a.Endpoint] = m; then login goes on to sign *)
AddPut(p) ==
    /\ ~fatal
    /\ pc[p] = "add_put"
    /\ \E oc \in MapOutcomes(p, TRUE) :
         IF oc = "fatal" THEN Crash
         ELSE /\ m' = StorePut(m, assoc[p][1])
              /\ Emit(p, assoc[p][1])
              /\ UNCHANGED <<now, drawn, fatal, params, lerr, called, sg>>

----------------------------------------------------------------------------
(* Handler.checkAuthentication *)

IsValid(v) == MapOf({<<K_ns, Namespace>>, <<S("is_valid"), S(v)>>})

(* A checkAuthentication that deletes the association it looked up when    *)
(* the signature does not match                                            *)
CaGetDeleting(p) ==
    /\ ~fatal
    /\ pc[p] = "ca_get"
    /\ LET ps  == params[p]
           a   == StoreGet(m, Endpoint0, Lookup(ps, K_assoc_handle))
           sgn == sign(a[1], ps, Split(Lookup(ps, K_signed), Comma))
       IN  /\ IF a = <<>>
              THEN Finish(p, direct(IsValid("false"), "nil")) /\ UNCHANGED m
              ELSE IF sgn.err # "nil"
              THEN Finish(p, direct(EmptyMap, sgn.err)) /\ UNCHANGED m
              ELSE IF Lookup(ps, K_sig) # sgn.sig
              THEN /\ Finish(p, direct(IsValid("false"), "nil"))
                   /\ m' = StoreRemove(m, Endpoint0, a[1].Handle)
              ELSE /\ assoc' = [assoc EXCEPT ![p] = a]
                   /\ Goto(p, "ca_del")
                   /\ UNCHANGED <<m, out, resp, nonce, i>>
           /\ UNCHANGED <<now, drawn, fatal, params, lerr, called, rp, accepted, sg>>

(* store.Get, sign and the comparison of sig *)
CaGet(p) ==
    /\ ~fatal
    /\ pc[p] = "ca_get"
    /\ \E oc \in MapOutcomes(p, FALSE) :
         IF oc = "fatal" THEN Crash
         ELSE
           LET ps  == params[p]
               a   == StoreGet(m, Endpoint0, Lookup(ps, K_assoc_handle))
               sgn == sign(a[1], ps, Split(Lookup(ps, K_signed), Comma))
           IN  /\ IF a = <<>>
                  THEN Finish(p, direct(IsValid("false"), "nil"))
                  ELSE IF sgn.err # "nil"
                  THEN Finish(p, direct(EmptyMap, sgn.err))
                  ELSE IF Lookup(ps, K_sig) # sgn.sig
                  THEN Finish(p, direct(IsValid("false"), "nil"))
                  ELSE /\ assoc' = [assoc EXCEPT ![p] = a]
                       /\ Goto(p, "ca_del")
                       /\ UNCHANGED <<out, resp, nonce, i>>
               /\ UNCHANGED <<m, now, drawn, fatal, params, lerr, called, rp,
                              accepted, sg>>

(* store.Delete("", assoc.Handle): its s.Get *)
CaDel(p) ==
    /\ ~fatal
    /\ pc[p] = "ca_del"
    /\ \E oc \in MapOutcomes(p, FALSE) :
         IF oc = "fatal" THEN Crash
         ELSE /\ IF StoreGet(m, Endpoint0, assoc[p][1].Handle) # <<>>
                 THEN Goto(p, "ca_rm") /\ Keep /\ UNCHANGED out
                 ELSE Finish(p, direct(IsValid("true"), "nil"))
              /\ UNCHANGED <<m, now, drawn, fatal, params, lerr, called, rp,
                             accepted, sg>>

(* store.Delete("", assoc.Handle): its delete, then return rparams *)
CaRm(p) ==
    /\ ~fatal
    /\ pc[p] = "ca_rm"
    /\ \E oc \in MapOutcomes(p, TRUE) :
         IF oc = "fatal" THEN Crash
         ELSE /\ m' = StoreRemove(m, Endpoint0, assoc[p][1].Handle)
              /\ Finish(p, direct(IsValid("true"), "nil"))
              /\ UNCHANGED <<now, drawn, fatal, params, lerr, called, rp, accepted,
                             sg>>

----------------------------------------------------------------------------
(* The end of a request, and the passing of time *)

Answered(p, v) ==
    /\ out[p] # <<>>
    /\ Lookup(out[p][Len(out[p])].params, S("is_valid")) = S(v)

Return(p) ==
    /\ ~fatal
    /\ pc[p] = "done"
    /\ accepted' = IF Answered(p, "true") THEN accepted \cup {params[p]}
                   ELSE accepted
    /\ pc' = [pc EXCEPT ![p] = "idle"]
    /\ params' = [params EXCEPT ![p] = EmptyMap]
    /\ lerr' = [lerr EXCEPT ![p] = "nil"]
    /\ called' = [called EXCEPT ![p] = <<>>]
    /\ out' = [out EXCEPT ![p] = <<>>]
    /\ UNCHANGED <<m, now, drawn, fatal, resp, nonce, assoc, i, rp, sg>>

Tick ==
    /\ ~fatal
    /\ now < MaxTime
    /\ now' = now + 1
    /\ UNCHANGED <<m, drawn, fatal, pc, params, resp, lerr, called, nonce, assoc, i,
                   out, rp, accepted, sg>>

----------------------------------------------------------------------------
(* Specifications *)

Init ==
    /\ m = EmptyMap
    /\ now = 0
    /\ drawn = 0
    /\ fatal = FALSE
    /\ pc = [p \in Procs |-> "idle"]
    /\ params = [p \in Procs |-> EmptyMap]
    /\ resp = [p \in Procs |-> <<>>]
    /\ lerr = [p \in Procs |-> "nil"]
    /\ called = [p \in Procs |-> <<>>]
    /\ nonce = [p \in Procs |-> <<>>]
    /\ assoc = [p \in Procs |-> <<>>]
    /\ i = [p \in Procs |-> 0]
    /\ out = [p \in Procs |-> <<>>]
    /\ rp = <<>>
    /\ accepted = {}
    /\ sg = <<>>

Step(p, W) ==
    \/ ServeHTTP(p, W)
    \/ Login(p, W)
    \/ GaGet(p)
    \/ GaExp(p)
    \/ GaDel(p)
    \/ GaRm(p)
    \/ GaNew(p)
    \/ SaTry(p)
    \/ AddPut(p)
    \/ CaGet(p)
    \/ CaDel(p)
    \/ CaRm(p)
    \/ Return(p)

(* One request at a time, over every request and collaborator outcome *)
Serial == [procs |-> {"g1"}, inputs |-> "control"]

Next == Tick \/ \E p \in Serial.procs : Step(p, Serial)

Spec == Init /\ [][Next]_vars

(* One request at a time, over the contents of the LoginResponse *)
Content == [procs |-> {"g1"}, inputs |-> "content"]

NextExt == Tick \/ \E p \in Content.procs : Step(p, Content)

SpecExt == Init /\ [][NextExt]_vars

(* Two requests served concurrently, as net/http does *)
Concurrent == [procs |-> Procs, inputs |-> "race"]

NextConc == Tick \/ \E p \in Concurrent.procs : Step(p, Concurrent)

SpecConc == Init /\ [][NextConc]_vars

(* One request at a time, over the handles a request may name *)
Renewal == [procs |-> {"g1"}, inputs |-> "handles"]

NextRenew == Tick \/ \E p \in Renewal.procs : Step(p, Renewal)

SpecRenew == Init /\ [][NextRenew]_vars

----------------------------------------------------------------------------
(* Association.sign on its own: two messages signed with one association   *)

SignFields == {S("claimed_id"), S("identity")}

SignValues == {<<>>, S("x"), S("y"), <<"x", NL, "identity", Colon, "y">>}

SignLists == UNION {[1..n -> SignFields] : n \in 0..MaxLen}

SignAssoc ==
    [Endpoint |-> Endpoint0, Handle |-> S("h1"), Secret |-> Secret(1),
     Type |-> hmacSHA256, Expires |-> TTL]

InitSign ==
    /\ Init!1 /\ Init!2 /\ Init!3 /\ Init!4 /\ Init!5 /\ Init!6 /\ Init!7
    /\ Init!8 /\ Init!9 /\ Init!10 /\ Init!11 /\ Init!12 /\ Init!13 /\ Init!14
    /\ Init!15
    /\ sg \in {[stage |-> "in", list1 |-> l1, vals1 |-> v1, list2 |-> l2,
                vals2 |-> v2, sig1 |-> <<>>, sig2 |-> <<>>] :
                  l1 \in SignLists, l2 \in SignLists,
                  v1 \in [SignFields -> SignValues],
                  v2 \in [SignFields -> SignValues]}

SignBoth ==
    /\ sg.stage = "in"
    /\ sg' = [sg EXCEPT !.stage = "out",
                        !.sig1 = sign(SignAssoc, sg.vals1, sg.list1).sig,
                        !.sig2 = sign(SignAssoc, sg.vals2, sg.list2).sig]
    /\ UNCHANGED <<m, now, drawn, fatal, pc, params, resp, lerr, called, nonce,
                   assoc, i, out, rp, accepted>>

SpecSign == InitSign /\ [][SignBoth]_vars

----------------------------------------------------------------------------
(* encodeExtensions on its own: one list of extensions encoded twice       *)

EncPrefixes == {S("mode"), S("sreg"), <<"ext", "0">>, <<"ext", "1">>}

EncParams ==
    {MapOf({<<S("k"), S("v")>>}),
     MapOf({<<S("k"), S("v")>>, <<S("l"), S("w")>>})}

EncExtensions ==
    {[Namespace |-> S("uri"), Prefix |-> pf, Params |-> xs] :
        pf \in EncPrefixes, xs \in EncParams}

EncLists == UNION {[1..n -> EncExtensions] : n \in 0..MaxLen}

EncStart == MapOf({<<K_ns, Namespace>>, <<K_mode, S("id_res")>>})

InitEnc ==
    /\ Init!1 /\ Init!2 /\ Init!3 /\ Init!4 /\ Init!5 /\ Init!6 /\ Init!7
    /\ Init!8 /\ Init!9 /\ Init!10 /\ Init!11 /\ Init!12 /\ Init!13 /\ Init!14
    /\ Init!15
    /\ sg \in {[stage |-> "exts", exts |-> l, run1 |-> <<>>, run2 |-> <<>>] :
                  l \in EncLists}

EncodeTwice ==
    /\ sg.stage = "exts"
    /\ \E a, b \in encodeExtensions(EncStart, sg.exts) :
         sg' = [sg EXCEPT !.stage = "encoded", !.run1 = a, !.run2 = b]
    /\ UNCHANGED <<m, now, drawn, fatal, pc, params, resp, lerr, called, nonce,
                   assoc, i, out, rp, accepted>>

SpecEnc == InitEnc /\ [][EncodeTwice]_vars

----------------------------------------------------------------------------
(* Properties *)

LastOut(p) == out[p][Len(out[p])]

ModeOf(p) == Lookup(params[p], K_mode)

HandleOf(p) == Lookup(params[p], K_assoc_handle)

Stored(h) == StoreGet(m, Endpoint0, h)

C2_AtMostOneValid ==
    \A p, q \in Procs :
      /\ p # q
      /\ pc[p] = "done" /\ pc[q] = "done"
      /\ ModeOf(p) = S("check_authentication")
      /\ params[p] = params[q]
      => ~(Answered(p, "true") /\ Answered(q, "true"))

(* C3: Add never succeeds for an (endpoint, handle) under which an         *)
(* association is stored, so of two Adds of the same handle that run at    *)
(* the same time at most one succeeds.                                     *)
C3_OneAddSucceeds ==
    [][\A p \in Procs :
         pc[p] = "add_put" /\ pc'[p] = "done" =>
           StoreGet(m, assoc[p][1].Endpoint, assoc[p][1].Handle) = <<>>]_vars

(* C4: an association whose expiry time is not in the future is treated as *)
(* absent: login does not sign with it, and check_authentication of a      *)
(* message naming it answers is_valid=false.                               *)
C4_ExpiredIsAbsent ==
    [][\A p \in Procs :
         /\ pc[p] = "ga_exp" /\ pc'[p] = "done" =>
              now < assoc[p][1].Expires
         /\ /\ pc[p] = "ca_get"
            /\ Stored(HandleOf(p)) # <<>>
            /\ ~(now < Stored(HandleOf(p))[1].Expires)
            /\ pc'[p] # "ca_get"
            => pc'[p] = "done" /\ Answered(p, "false")']_vars

(* C5: the id_res message the login flow sent, handed back unaltered as a  *)
(* check_authentication request while its association is stored and not    *)
(* expired, is answered is_valid=true, whatever the LoginResponse and its   *)
(* extensions were.                                                        *)
C5_RoundTrip ==
    \A p \in Procs :
      /\ pc[p] = "done"
      /\ rp # <<>>
      /\ params[p] = AsCheckAuth(rp[1].params)
      /\ Stored(rp[1].assoc.Handle) = <<rp[1].assoc>>
      /\ now < rp[1].assoc.Expires
      => Answered(p, "true")

(* C6: a signature made over a signed list and its values is not the       *)
(* signature of a message that differs in the list or in the value of a    *)
(* field of the list.                                                      *)
C6_TamperDetected ==
    /\ sg # <<>>
    /\ sg.stage = "out"
    /\ \/ sg.list1 # sg.list2
       \/ \E k \in 1..Len(sg.list1) :
            sg.vals1[sg.list1[k]] # sg.vals2[sg.list1[k]]
    => sg.sig1 # sg.sig2

(* C7: when the collaborator returns ErrUnauthenticated, whatever else it  *)
(* returns, the request ends with setup_needed (checkid_immediate) or      *)
(* cancel (otherwise) carrying no signature, and the store is not changed. *)
C7_DeclinedNeverAsserts ==
    [][\A p \in Procs :
         lerr'[p] = ErrUnauthenticated =>
           /\ m' = m
           /\ pc[p] = "login" =>
                /\ pc'[p] = "done"
                /\ Lookup(LastOut(p).params, K_mode)' =
                     (IF ModeOf(p) = S("checkid_immediate")
                      THEN S("setup_needed") ELSE S("cancel"))
                /\ Lookup(LastOut(p).params, K_sig)' = <<>>]_vars

(* C8: a request whose openid.ns is not the OpenID 2.0 namespace gets one  *)
(* response, a protocol error, and nothing else is done for it.            *)
C8_BadNamespaceOnlyError ==
    [][\A p \in Procs :
         pc[p] = "idle" /\ pc'[p] # "idle"
           /\ Lookup(params'[p], K_ns) # Namespace =>
             /\ pc'[p] = "done"
             /\ Len(out'[p]) = 1
             /\ Lookup(out'[p][1].params, K_mode) = S("error")]_vars

(* C9: a check_authentication call that answers is_valid=false changes     *)
(* nothing in the store.                                                   *)
C9_FalseLeavesStore ==
    [][\A p \in Procs :
         \/ pc[p] = "idle" /\ pc'[p] = "ca_get"
         \/ pc[p] = "ca_get" /\ pc'[p] = "done" /\ Answered(p, "false")'
         => m' = m]_vars

(* A message whose signature does not match was answered false and the     *)
(* association it names is stored                                          *)
C9_Mismatch ==
    \E p \in Procs :
      /\ pc[p] = "done"
      /\ ModeOf(p) = S("check_authentication")
      /\ Lookup(params[p], K_sig) # <<>>
      /\ Answered(p, "false")
      /\ Stored(HandleOf(p)) # <<>>

(* C10: saving a new association takes at most 10 Add attempts; an attempt *)
(* succeeds only for a handle under which nothing is stored, and then the  *)
(* store gains that association and loses none; an attempt is repeated     *)
(* only after a duplicate; when saving ends without success, as it does    *)
(* when the 10th attempt is a duplicate too, the request ends with an      *)
(* error and the store is as it was.                                       *)
C10_BoundedRetry ==
    [][\A p \in Procs :
         /\ i'[p] < 10
         /\ (pc[p] = "sa_try" /\ pc'[p] = "sa_try"
               /\ <<i[p], assoc[p]>>' # <<i[p], assoc[p]>>) =>
              /\ Stored(assoc'[p][1].Handle) # <<>>
              /\ i'[p] = i[p] + 1
              /\ m' = m
         /\ pc[p] = "sa_try" /\ pc'[p] = "add_put" =>
              Stored(assoc'[p][1].Handle) = <<>> /\ m' = m
         /\ pc[p] = "add_put" /\ pc'[p] = "done" =>
              /\ Stored(assoc[p][1].Handle) = <<>>
              /\ StoreGet(m', Endpoint0, assoc[p][1].Handle) = assoc[p]
              /\ \A h \in Handles : Stored(h) # <<>> => Stored(h)' = Stored(h)
         /\ pc[p] = "sa_try" /\ pc'[p] = "done" =>
              /\ m' = m
              /\ Lookup(LastOut(p).params, K_mode)' = S("error")]_vars

(* Every one of the 10 attempts met a duplicate *)
C10_AllDuplicates ==
    \E p \in Procs :
      /\ pc[p] = "done"
      /\ out[p] # <<>>
      /\ Lookup(LastOut(p).params, S("error")) = S("cannot store association")

(* C13: a mode=associate request with the right ns is answered, whatever   *)
(* its session_type, by one direct response with status 400 and exactly    *)
(* the fields ns, mode=error, error and error-code=unsupported-type, and   *)
(* the store is unchanged.                                                 *)
C13_AssociateUnsupported ==
    [][\A p \in Procs :
         /\ pc[p] = "idle" /\ pc'[p] # "idle"
         /\ Lookup(params'[p], K_mode) = S("associate")
         /\ Lookup(params'[p], K_ns) = Namespace
         => /\ pc'[p] = "done"
            /\ m' = m
            /\ Len(out'[p]) = 1
            /\ out'[p][1].kind = "direct"
            /\ out'[p][1].status = 400
            /\ DOMAIN out'[p][1].params =
                 {K_ns, K_mode, S("error"), S("error-code")}
            /\ Lookup(out'[p][1].params, K_ns) = Namespace
            /\ Lookup(out'[p][1].params, K_mode) = S("error")
            /\ Lookup(out'[p][1].params, S("error-code")) =
                 S("unsupported-type")]_vars

(* An associate request asking for DH-SHA256 has been answered *)
C13_AssociateAnswered ==
    \E p \in Procs :
      /\ pc[p] = "done"
      /\ ModeOf(p) = S("associate")
      /\ Lookup(params[p], K_ns) = Namespace
      /\ Lookup(params[p], S("session_type")) = S("DH-SHA256")
      /\ out[p] # <<>>

(* The request declares a reserved word as an extension prefix, or one     *)
(* namespace under two prefixes                                            *)
Malformed(ps) ==
    \/ \E k \in NsKeys(ps) : Part1(k) \in bannedPrefixes
    \/ \E k1, k2 \in NsKeys(ps) : k1 # k2 /\ ps[k1] = ps[k2]

(* C11: a checkid request with a malformed extension declaration ends      *)
(* with a protocol error (mode=error) as its only answer from login: the   *)
(* collaborator is not called, the store is unchanged, no secret is drawn  *)
(* and no id_res is sent.                                                  *)
C11_MalformedExtensionAborts ==
    [][\A p \in Procs :
         pc[p] = "login" /\ pc'[p] # "login" /\ Malformed(params[p]) =>
           /\ pc'[p] = "done"
           /\ called'[p] = <<>>
           /\ m' = m
           /\ drawn' = drawn
           /\ Len(out'[p]) = Len(out[p]) + 1
           /\ SubSeq(out'[p], 1, Len(out[p])) = out[p]
           /\ Lookup(LastOut(p).params, K_mode)' = S("error")
           /\ Lookup(LastOut(p).params, K_sig)' = <<>>]_vars

(* A request with a malformed declaration and a return_to was answered     *)
(* with an error sent to the return_to                                     *)
C11_Aborted ==
    \E p \in Procs :
      /\ pc[p] = "done"
      /\ Malformed(params[p])
      /\ Lookup(params[p], K_return_to) # <<>>
      /\ out[p] # <<>>
      /\ LastOut(p).kind = "indirect"
      /\ Lookup(LastOut(p).params, K_mode) = S("error")

(* C12: in the output of encodeExtensions every extension has a prefix of  *)
(* its own (as many ns.<prefix> keys as extensions), no prefix is a        *)
(* reserved word, and every signed key carries one of those prefixes; the  *)
(* encoding of every list of extensions ends.                              *)
C12_PrefixesDistinct ==
    sg # <<>> /\ sg.stage = "encoded" =>
      /\ Cardinality(NsKeys(sg.run1.params)) = Len(sg.exts)
      /\ \A k \in NsKeys(sg.run1.params) : Part1(k) \notin bannedPrefixes
      /\ \A j \in 1..Len(sg.run1.signed) :
           /\ Part0(sg.run1.signed[j]) \notin bannedPrefixes
           /\ <<"ns", Dot>> \o Part0(sg.run1.signed[j])
                \in NsKeys(sg.run1.params)

(* A reserved prefix, a prefix that looks like the label generated for it  *)
(* and that prefix once more have been encoded                             *)
C12_FallbackMeetsDeclared ==
    /\ sg # <<>>
    /\ sg.stage = "encoded"
    /\ Len(sg.exts) = 2
    /\ sg.exts[1].Prefix = S("mode")
    /\ sg.exts[2].Prefix = <<"ext", "0">>
    /\ <<"ns", Dot, "ext", "1">> \in DOMAIN sg.run1.params

(* C19: two encodings of the same list of extensions give the same list of *)
(* signed field names.                                                     *)
C19_EncodingDeterministic ==
    sg # <<>> /\ sg.stage = "encoded" => sg.run1.signed = sg.run2.signed

(* The request of p has ended with an id_res message *)
SentIdRes(p) ==
    /\ pc[p] = "done"
    /\ called[p] # <<>>
    /\ called[p][1].resp # <<>>
    /\ out[p] # <<>>
    /\ Lookup(LastOut(p).params, K_mode) = S("id_res")

(* C14: the signed field of an id_res message is the comma-join of         *)
(* op_endpoint, return_to, response_nonce, assoc_handle, then claimed_id   *)
(* iff ClaimedID is not empty, then identity iff Identity is not empty,    *)
(* then the extension field names as encoded; every name of the list is a  *)
(* field of the message, sig is the signature of the association named by  *)
(* assoc_handle over that list and the message, and sig, signed, ns, mode  *)
(* and invalidate_handle are not in the list.                              *)
C14_SignedList ==
    \A p \in Procs :
      SentIdRes(p) =>
        LET msg  == LastOut(p).params
            r    == called[p][1].resp[1]
            core == <<S("op_endpoint"), S("return_to"), S("response_nonce"),
                      S("assoc_handle")>>
                    \o (IF r.ClaimedID # <<>> THEN <<S("claimed_id")>>
                        ELSE <<>>)
                    \o (IF r.Identity # <<>> THEN <<S("identity")>> ELSE <<>>)
        IN  \E enc \in encodeExtensions(EmptyMap, r.Extensions) :
              LET L == core \o enc.signed
              IN  /\ Lookup(msg, K_signed) = Join(L, Comma)
                  /\ \A j \in 1..Len(L) : L[j] \in DOMAIN msg
                  /\ Stored(Lookup(msg, K_assoc_handle)) # <<>>
                  /\ Lookup(msg, K_sig) =
                       sign(Stored(Lookup(msg, K_assoc_handle))[1], msg, L).sig
                  /\ \A j \in 1..Len(L) :
                       L[j] \notin {K_sig, K_signed, K_ns, K_mode,
                                    S("invalidate_handle")}

(* An id_res message without claimed_id, with identity and with the field  *)
(* of an extension has been sent                                           *)
C14_IdentityAndExtension ==
    \E p \in Procs :
      /\ SentIdRes(p)
      /\ called[p][1].resp[1].ClaimedID = <<>>
      /\ called[p][1].resp[1].Identity # <<>>
      /\ called[p][1].resp[1].Extensions # <<>>
      /\ Lookup(LastOut(p).params, K_sig) # <<>>

(* C15: an id_res message has the field invalidate_handle if and only if   *)
(* the request named a handle and that handle is not the message's         *)
(* assoc_handle; the field then holds the handle the request named, the    *)
(* message's assoc_handle names the stored association whose signature it  *)
(* carries, and invalidate_handle is not in the signed list.               *)
C15_InvalidateHandle ==
    \A p \in Procs :
      SentIdRes(p) =>
        LET msg == LastOut(p).params
            rh  == HandleOf(p)
            ah  == Lookup(msg, K_assoc_handle)
            L   == Split(Lookup(msg, K_signed), Comma)
        IN  /\ S("invalidate_handle") \in DOMAIN msg <=>
                 (rh # <<>> /\ rh # ah)
            /\ S("invalidate_handle") \in DOMAIN msg =>
                 msg[S("invalidate_handle")] = rh
            /\ Stored(ah) # <<>>
            /\ Lookup(msg, K_sig) = sign(Stored(ah)[1], msg, L).sig
            /\ \A j \in 1..Len(L) : L[j] # S("invalidate_handle")

(* A request that named an unknown handle got an id_res message with       *)
(* invalidate_handle and the handle of a new association                   *)
C15_Invalidated ==
    \E p \in Procs :
      /\ SentIdRes(p)
      /\ HandleOf(p) = StaleHandle
      /\ Lookup(LastOut(p).params, S("invalidate_handle")) = StaleHandle
      /\ Lookup(LastOut(p).params, K_assoc_handle) \in Handles

C17_NoReturnTo ==
    [][\A p \in Procs :
         /\ pc[p] = "login"
         /\ called'[p] # <<>>
         /\ called'[p][1].resp # <<>>
         /\ Lookup(params[p], K_return_to) = <<>>
         => /\ pc'[p] = "done"
            /\ m' = m /\ drawn' = drawn
            /\ nonce'[p] = <<>> /\ assoc'[p] = <<>>
            /\ Len(out'[p]) = Len(out[p]) + 1
            /\ SubSeq(out'[p], 1, Len(out[p])) = out[p]
            /\ LastOut(p).kind' = "direct"
            /\ LastOut(p).status' = 400
            /\ Lookup(LastOut(p).params, K_mode)' = S("error")
            /\ Lookup(LastOut(p).params, K_sig)' = <<>>]_vars

(* The collaborator authenticated the user of a request without return_to  *)
C17_CannotSend ==
    \E p \in Procs :
      /\ pc[p] = "done"
      /\ called[p] # <<>>
      /\ called[p][1].resp # <<>>
      /\ called[p][1].err = "nil"
      /\ Lookup(params[p], K_return_to) = <<>>
      /\ out[p] # <<>>
      /\ Lookup(LastOut(p).params, S("error")) =
           S("cannot send id_res message, no return_to parameter")

(* C18: when the collaborator returns no response and no error, login in   *)
(* checkid_setup responds nothing and in checkid_immediate responds        *)
(* setup_needed; either way it creates nothing and the store is unchanged. *)
C18_CollaboratorAnswered ==
    [][\A p \in Procs :
         pc[p] = "login" /\ called'[p] = <<[resp |-> <<>>, err |-> "nil"]>> =>
           /\ pc'[p] = "done"
           /\ m' = m /\ drawn' = drawn
           /\ nonce'[p] = <<>> /\ assoc'[p] = <<>>
           /\ ModeOf(p) = S("checkid_setup") => out'[p] = out[p]
           /\ ModeOf(p) = S("checkid_immediate") =>
                /\ Len(out'[p]) = Len(out[p]) + 1
                /\ SubSeq(out'[p], 1, Len(out[p])) = out[p]
                /\ Lookup(LastOut(p).params, K_mode)' = S("setup_needed")
                /\ Lookup(LastOut(p).params, K_sig)' = <<>>]_vars

(* A checkid_setup request the collaborator answered itself has ended      *)
(* without a response                                                      *)
C18_NothingWritten ==
    \E p \in Procs :
      /\ pc[p] = "done"
      /\ ModeOf(p) = S("checkid_setup")
      /\ called[p] = <<[resp |-> <<>>, err |-> "nil"]>>
      /\ out[p] = <<>>

(* C20: no request gets more than one response.                            *)
C20_AtMostOneResponse ==
    \A p \in Procs : Len(out[p]) <= 1

====
